---- MODULE Spec2Model ----
(***************************************************************************)
(* A model of prefect's client-side core:                                  *)
(*   - prefect/utilities/serialization.py : the VERSIONS registry, the     *)
(*     version decorator, get_versioned_schema and VersionedSchema.load    *)
(*   - prefect/client/client.py : Client's token, credential file,         *)
(*     login / logout / refresh_token and the _request retry logic         *)
(*                                                                         *)
(* Python strings that are compared with <= (version tags) are sequences   *)
(* of character codes; strings that are only compared for equality are     *)
(* TLA+ strings.                                                           *)
(***************************************************************************)
EXTENDS Naturals, Sequences, FiniteSets, TLC

VARIABLES
    VERSIONS,     \* serialization.VERSIONS: qualified name -> (tag -> schema class)
    nregistered,  \* number of version(...)(cls) calls made so far
    instance,     \* the caller's schema instance: its class and the
                  \* "create_object" entry of its context dict
    data,         \* the dict the caller passes to load (load may mutate it)
    loaded,       \* what the last call of VersionedSchema.load did and returned
    token,        \* Client.token
    file,         \* ~/.prefect/.credentials/auth_token
    config,       \* prefect.config.cloud.auth_token at construction
    call,         \* per caller: the _request call it is in (position, history, outcome)
    session,      \* what the last login / logout / refresh_token call did
    field,        \* a FunctionReference field and what its last call was given and returned
    deployment    \* the Client.deploy call in progress: its arguments, position and outcome

schemaVars == <<VERSIONS, nregistered, instance, data, loaded>>
clientVars == <<token, file, config, call, session>>
fieldVars == <<field>>
deployVars == <<deployment>>
vars == <<VERSIONS, nregistered, instance, data, loaded, token, file, config, call, session,
          field, deployment>>

-----------------------------------------------------------------------------
(* Python str ordering: code point by code point, a proper prefix is smaller *)

Min(a, b) == IF a <= b THEN a ELSE b

StrLE(a, b) ==
    \/ /\ Len(a) <= Len(b)
       /\ \A i \in 1..Len(a) : a[i] = b[i]
    \/ \E i \in 1..Min(Len(a), Len(b)) :
          /\ a[i] < b[i]
          /\ \A j \in 1..(i - 1) : a[j] = b[j]

\* max() of a non-empty collection of str
StrMax(S) == CHOOSE t \in S : \A u \in S : StrLE(u, t)

\* MAX_VERSION = "__MAX_VERSION__"
MAX_VERSION == <<95, 95, 77, 65, 88, 95, 86, 69, 82, 83, 73, 79, 78, 95, 95>>

-----------------------------------------------------------------------------
(* The schema classes of the model.  Two generations of one schema share a  *)
(* qualified name (the class was redefined under the same name), a third    *)
(* class has a name of its own.                                             *)

Classes == {"A_old", "A_new", "B"}

\* the functions given to FunctionReference fields: g and g2 are two functions
\* of one module under one __qualname__ (a function defined again, two lambdas)
Functions == {"f", "g", "g2", "h"}

\* to_qualified_name(obj) = obj.__module__ + "." + obj.__qualname__
to_qualified_name(cls) ==
    CASE cls = "f" -> "m.f"
      [] cls \in {"g", "g2"} -> "m.g"
      [] cls = "h" -> "m.h"
      [] cls = "B" -> "pkg.SchemaB"
      [] OTHER -> "pkg.SchemaA"

\* Meta.object_class of each class (None: the schema declares no target type)
object_class(cls) == IF cls = "B" THEN "None" ELSE "ObjA"

\* the tags the model registers: "1", "2", "4", "a"
Tags == {<<49>>, <<50>>, <<52>>, <<97>>}

\* the __version__ values the model puts in payloads:
\* the tags, and "0", "10", "3", "5", "__MAX_VERSION__"
PayloadVersions == Tags \cup {<<48>>, <<49, 48>>, <<51>>, <<53>>, MAX_VERSION}

\* how many version(...) registrations a run makes
MaxRegister == 3

\* the value under a dict key: the str, and whether it is the very object that
\* serialization.MAX_VERSION names (Python's `is`); an equal str read from JSON
\* is another object
NoValue == [str |-> <<>>, same |-> FALSE]

\* data.get("__version__", MAX_VERSION)
GetVersion(d) ==
    IF d.hasver THEN [str |-> d.ver, same |-> d.same]
    ELSE [str |-> MAX_VERSION, same |-> TRUE]

-----------------------------------------------------------------------------
(* version(version)(cls): VERSIONS.setdefault(to_qualified_name(cls), {})[version] = cls *)

SetDefault(V, name) ==
    IF name \in DOMAIN V THEN V ELSE [n \in DOMAIN V \cup {name} |-> IF n = name THEN << >> ELSE V[n]]

\* a registration that starts the inner dict anew
Registered_replaced(V, name, tag, cls) ==
    [n \in DOMAIN V \cup {name} |-> IF n = name THEN [t \in {tag} |-> cls] ELSE V[n]]

Registered(V, name, tag, cls) ==
    LET W == SetDefault(V, name)
        inner == W[name]
        inner2 == [t \in DOMAIN inner \cup {tag} |-> IF t = tag THEN cls ELSE inner[t]]
    IN [W EXCEPT ![name] = inner2]

NoLoad == [op |-> "none", self |-> "none", hadver |-> FALSE, ver |-> NoValue,
           create_object |-> FALSE, check_version |-> FALSE,
           resolved |-> "none", used |-> "none", result |-> "none",
           reinstantiated |-> FALSE, nresolve |-> 0, sawver |-> FALSE,
           from |-> "none", val |-> "none", pv |-> <<>>]

Register(cls, tag) ==
    /\ nregistered < MaxRegister
    /\ VERSIONS' = Registered(VERSIONS, to_qualified_name(cls), tag, cls)
    /\ nregistered' = nregistered + 1
    /\ loaded' = NoLoad
    /\ UNCHANGED <<instance, data>>
    /\ UNCHANGED <<clientVars, fieldVars, deployVars>>

-----------------------------------------------------------------------------
(* get_versioned_schema(schema, version): the class, or the ValueError raised *)

ErrUnregistered == "ValueError: Unregistered VersionedSchema"
ErrNoMatch == "ValueError: No VersionSchema was registered for version"

\* `version is MAX_VERSION`: object identity, not equality
IsMaxVersion(version) == version.same

\* get_versioned_schema with the version bound dropped: the newest registered
\* schema whatever the payload declares
get_versioned_schema_newest(V, cls, version) ==
    LET name == to_qualified_name(cls) IN
    IF name \notin DOMAIN V
    THEN [schema |-> "none", error |-> ErrUnregistered]
    ELSE [schema |-> V[name][StrMax(DOMAIN V[name])], error |-> "none"]

\* get_versioned_schema as its docstring has it: "the original schema if no
\* better match was found", no error
get_versioned_schema_fallback(V, cls, version) ==
    LET name == to_qualified_name(cls) IN
    IF name \notin DOMAIN V
    THEN [schema |-> cls, error |-> "none"]
    ELSE IF IsMaxVersion(version)
    THEN [schema |-> V[name][StrMax(DOMAIN V[name])], error |-> "none"]
    ELSE LET matching_versions == {v \in DOMAIN V[name] : StrLE(v, version.str)} IN
         IF matching_versions = {}
         THEN [schema |-> cls, error |-> "none"]
         ELSE [schema |-> V[name][StrMax(matching_versions)], error |-> "none"]

\* get_versioned_schema comparing with `v < version`
get_versioned_schema_below(V, cls, version) ==
    LET name == to_qualified_name(cls) IN
    IF name \notin DOMAIN V
    THEN [schema |-> "none", error |-> ErrUnregistered]
    ELSE IF IsMaxVersion(version)
    THEN [schema |-> V[name][StrMax(DOMAIN V[name])], error |-> "none"]
    ELSE LET matching_versions ==
                 {v \in DOMAIN V[name] : StrLE(v, version.str) /\ v # version.str} IN
         IF matching_versions = {}
         THEN [schema |-> "none", error |-> ErrNoMatch]
         ELSE [schema |-> V[name][StrMax(matching_versions)], error |-> "none"]

\* get_versioned_schema with its comparison turned round: `v >= version`
get_versioned_schema_above(V, cls, version) ==
    LET name == to_qualified_name(cls) IN
    IF name \notin DOMAIN V
    THEN [schema |-> "none", error |-> ErrUnregistered]
    ELSE IF IsMaxVersion(version)
    THEN [schema |-> V[name][StrMax(DOMAIN V[name])], error |-> "none"]
    ELSE LET matching_versions == {v \in DOMAIN V[name] : StrLE(version.str, v)} IN
         IF matching_versions = {}
         THEN [schema |-> "none", error |-> ErrNoMatch]
         ELSE [schema |-> V[name][StrMax(matching_versions)], error |-> "none"]

get_versioned_schema(V, cls, version) ==
    LET name == to_qualified_name(cls) IN
    IF name \notin DOMAIN V
    THEN [schema |-> "none", error |-> ErrUnregistered]
    ELSE IF IsMaxVersion(version)
    THEN [schema |-> V[name][StrMax(DOMAIN V[name])], error |-> "none"]
    ELSE LET matching_versions == {v \in DOMAIN V[name] : StrLE(v, version.str)} IN
         IF matching_versions = {}
         THEN [schema |-> "none", error |-> ErrNoMatch]
         ELSE [schema |-> V[name][StrMax(matching_versions)], error |-> "none"]

-----------------------------------------------------------------------------
(* VersionedSchema.load and the marshmallow hooks it runs *)

\* the caller's payloads: a dict with or without the "__version__" key, and one
\* declared field whose value val passes (x = "ok") or fails the field-level
\* rules; by names the schema class whose dump produced the dict, if one did
Payloads ==
    {[hasver |-> FALSE, ver |-> <<>>, same |-> FALSE, x |-> x, by |-> "none", val |-> "v1"] :
         x \in {"ok", "bad"}}
    \cup {[hasver |-> TRUE, ver |-> v, same |-> s, x |-> x, by |-> "none", val |-> "v1"] :
             v \in PayloadVersions, s \in BOOLEAN, x \in {"ok", "bad"}}

\* a str can be the MAX_VERSION object only if it is equal to it
WellFormed(d) == d.same => (d.hasver /\ d.ver = MAX_VERSION)

\* the caller builds (or parses) a payload
NewPayload(d) ==
    /\ WellFormed(d)
    /\ data' = d
    /\ loaded' = NoLoad
    /\ UNCHANGED <<VERSIONS, nregistered, instance>>
    /\ UNCHANGED <<clientVars, fieldVars, deployVars>>

\* VersionedSchema.__init__: the caller instantiates a schema class; its context
\* dict starts empty
NewInstance(cls) ==
    /\ instance' = [cls |-> cls, context |-> "unset"]
    /\ loaded' = NoLoad
    /\ UNCHANGED <<VERSIONS, nregistered, data>>
    /\ UNCHANGED <<clientVars, fieldVars, deployVars>>

\* self.context.setdefault("create_object", create_object)
ContextSetDefault(ctx, create_object) ==
    IF ctx = "unset" THEN (IF create_object THEN "True" ELSE "False") ELSE ctx

\* a pre_load hook that leaves the dict as it is
_remove_version_kept(d) == d

\* @pre_load _remove_version: data.pop("__version__", None)
_remove_version(d) == [d EXCEPT !.hasver = FALSE, !.ver = <<>>, !.same = FALSE]

\* @post_load create_object, under the context entry ctx (never "unset" here:
\* load has run setdefault on the shared context before)
create_object(cls, ctx) ==
    IF ctx # "False" /\ object_class(cls) # "None" THEN "object" ELSE "mapping"

\* marshmallow's Schema.load on an instance of cls: the pre_load hook, the
\* field-level rules, then the post_load hook; a ValidationError otherwise
SuperLoad(cls, d, ctx) ==
    LET stripped == _remove_version(d) IN
    [data |-> stripped,
     sawver |-> stripped.hasver,
     val |-> IF stripped.x = "bad" THEN "none" ELSE stripped.val,
     result |-> IF stripped.x = "bad" THEN "ValidationError" ELSE create_object(cls, ctx)]

\* `schema is not self`: schema is a class out of VERSIONS, self an instance
SchemaIsNotSelf(schema, self) == TRUE

Load(co, check_version) ==
    LET self == instance.cls
        ctx == ContextSetDefault(instance.context, co)
        version == GetVersion(data)
        got == get_versioned_schema(VERSIONS, self, version)
        base == [op |-> "load", self |-> self, hadver |-> data.hasver,
                 ver |-> version, create_object |-> co,
                 check_version |-> check_version, resolved |-> "none",
                 used |-> "none", result |-> "none", reinstantiated |-> FALSE,
                 nresolve |-> IF check_version THEN 1 ELSE 0, sawver |-> FALSE,
                 from |-> IF data.hasver THEN data.by ELSE "none",
                 val |-> "none", pv |-> <<>>]
    IN
    /\ instance' = [instance EXCEPT !.context = ctx]
    /\ IF check_version
       THEN IF got.error # "none"
            THEN /\ loaded' = [base EXCEPT !.result = got.error]
                 /\ data' = data
            ELSE IF SchemaIsNotSelf(got.schema, self)
            THEN LET r == SuperLoad(got.schema, data, ctx) IN
                 /\ loaded' = [base EXCEPT !.resolved = got.schema, !.used = got.schema,
                                           !.result = r.result, !.reinstantiated = TRUE,
                                           !.sawver = r.sawver, !.val = r.val]
                 /\ data' = r.data
            ELSE LET r == SuperLoad(self, data, ctx) IN
                 /\ loaded' = [base EXCEPT !.resolved = got.schema, !.used = self,
                                           !.result = r.result,
                                           !.sawver = r.sawver, !.val = r.val]
                 /\ data' = r.data
       ELSE LET r == SuperLoad(self, data, ctx) IN
            /\ loaded' = [base EXCEPT !.used = self, !.result = r.result,
                                      !.sawver = r.sawver, !.val = r.val]
            /\ data' = r.data
    /\ UNCHANGED <<VERSIONS, nregistered>>
    /\ UNCHANGED <<clientVars, fieldVars, deployVars>>

-----------------------------------------------------------------------------
(* VersionedSchema dump: marshmallow's Schema.dump and the post_dump hook *)

\* prefect.__version__ of the library that runs the dump: "2", "3"
LibraryVersions == {<<50>>, <<51>>}

\* the field values of the objects dumped
Values == {"v1", "v2"}

\* what a schema that declares a "__version__" field of its own serializes
\* under that key: "1", "4"
FieldVersions == {<<49>>, <<52>>}

\* a post_dump hook that writes the library's version over what is there
_add_version_overwrite(d, pv) == [d EXCEPT !.hasver = TRUE, !.ver = pv]

\* @post_dump _add_version: data.setdefault("__version__", prefect.__version__)
_add_version(d, pv) ==
    IF d.hasver THEN d ELSE [d EXCEPT !.hasver = TRUE, !.ver = pv]

\* self.dump(o) under the library version pv: the field-level serialization of
\* an object whose field holds val (with a "__version__" of its own, fv, when
\* produced), then the post_dump hook; the caller holds the dict returned
Dump(pv, val, produced, fv) ==
    LET self == instance.cls
        fields == [hasver |-> produced, ver |-> IF produced THEN fv ELSE <<>>,
                   same |-> FALSE, x |-> "ok", by |-> self, val |-> val]
    IN
    /\ data' = _add_version(fields, pv)
    /\ loaded' = [NoLoad EXCEPT !.op = "dump", !.self = self, !.hadver = produced,
                                !.ver = [str |-> fields.ver, same |-> FALSE],
                                !.val = val, !.pv = pv]
    /\ UNCHANGED <<VERSIONS, nregistered, instance>>
    /\ UNCHANGED <<clientVars, fieldVars, deployVars>>

-----------------------------------------------------------------------------
(* FunctionReference: a function stored as its qualified name *)

\* the valid_functions lists a field is built with
MaxFunctions == 2
AllowLists == UNION {[1..n -> Functions \ {"h"}] : n \in 0..MaxFunctions}

Range(L) == {L[i] : i \in DOMAIN L}

\* self.valid_functions = {to_qualified_name(f): f for f in valid_functions}:
\* of two functions under one name the later one of the list stays
ValidFunctions(L) ==
    [n \in {to_qualified_name(f) : f \in Range(L)} |->
        L[CHOOSE i \in DOMAIN L :
            /\ to_qualified_name(L[i]) = n
            /\ \A j \in DOMAIN L : to_qualified_name(L[j]) = n => j <= i]]

ValidationError == "ValidationError"

\* _serialize that never looks at valid_functions
_serialize_unchecked(L, reject_invalid, value) == to_qualified_name(value)

\* FunctionReference._serialize for a value that is not None
_serialize(L, reject_invalid, value) ==
    IF value \notin Range(ValidFunctions(L)) /\ reject_invalid
    THEN ValidationError
    ELSE to_qualified_name(value)

\* the end of _deserialize: the function under the name, or the name itself
\* when valid_functions has no such key
_deserialize_return(L, value) ==
    IF value \in DOMAIN ValidFunctions(L) THEN ValidFunctions(L)[value] ELSE value

\* FunctionReference._deserialize for a value that is not None
_deserialize(L, reject_invalid, value) ==
    IF value \notin DOMAIN ValidFunctions(L) /\ reject_invalid
    THEN ValidationError
    ELSE _deserialize_return(L, value)

\* the names a payload can hold under the field
FunctionNames == {to_qualified_name(f) : f \in Functions} \cup {"m.unknown"}

NoField == [op |-> "none", valid_functions |-> <<>>, reject_invalid |-> TRUE,
            value |-> "none", serialized |-> "none", result |-> "none"]

\* a schema with a field FunctionReference(L, reject_invalid) dumps a function
Serialize(L, reject_invalid, value) ==
    /\ field' = [op |-> "serialize", valid_functions |-> L,
                 reject_invalid |-> reject_invalid, value |-> value,
                 serialized |-> "none",
                 result |-> _serialize(L, reject_invalid, value)]
    /\ UNCHANGED <<schemaVars, clientVars, deployVars>>

\* it loads a name
Deserialize(L, reject_invalid, value) ==
    /\ field' = [op |-> "deserialize", valid_functions |-> L,
                 reject_invalid |-> reject_invalid, value |-> value,
                 serialized |-> "none",
                 result |-> _deserialize(L, reject_invalid, value)]
    /\ UNCHANGED <<schemaVars, clientVars, deployVars>>

\* it loads what its last dump returned
DeserializeSerialized ==
    /\ field.op = "serialize"
    /\ field.result # ValidationError
    /\ field' = [field EXCEPT !.op = "roundtrip",
                              !.serialized = field.result,
                              !.result = _deserialize(field.valid_functions,
                                                      field.reject_invalid, field.result)]
    /\ UNCHANGED <<schemaVars, clientVars, deployVars>>

-----------------------------------------------------------------------------
(* Client: the token, the credential file and the values they take *)

\* bearer tokens the server hands out
Tokens == {"t1", "t2"}

\* Python's None; an attribute removed by `del`; a file that does not exist
None == "<None>"
Deleted == "<deleted>"
NoFile == "<nofile>"

\* what response.json().get("token") can yield: a token, an empty str, or None
\* when the body has no "token" key
BodyTokens == Tokens \cup {"", None}

\* the status codes the server answers with
Statuses == {200, 304, 401, 404, 500}

\* the threads that use the one Client
Callers == {"c1", "c2"}

\* Client.__init__ reading the credential file before the configuration
InitToken_fileFirst(cfg, f) ==
    IF f \notin {NoFile, ""} THEN f ELSE cfg

\* Client.__init__: the configured token, else the credential file's content
\* (f.read() or None), else None
InitToken(cfg, f) ==
    IF cfg # None THEN cfg
    ELSE IF f # NoFile THEN (IF f = "" THEN None ELSE f)
    ELSE None

\* Python truthiness of self.token in `if self.token:`
Truthy(t) == t \notin {None, ""}

\* requests' Response.raise_for_status() / Response.ok: an HTTPError for 4xx
\* and 5xx, nothing for any other status
RaisesForStatus(status) == status >= 400

NoOutcome == [kind |-> "none", status |-> 0]
Response(status) == [kind |-> "Response", status |-> status]
Raised(kind) == [kind |-> kind, status |-> 0]
HTTPError(status) == [kind |-> "HTTPError", status |-> status]

\* the body of a response: no text at all, or the JSON envelope of the GraphQL
\* server with its "errors" key (when there is one) and its "data" key. The data
\* of the one field queried: "ok" is an object with its error field null,
\* "error" one whose error field holds a message, "emptyError" one whose error
\* field holds the empty str, "null" a null where the object (the run, the
\* task_run) is expected
Envelope(text, haserrors, errors, d) ==
    [text |-> text, haserrors |-> haserrors, errors |-> errors, data |-> d]
NoEnvelope == Envelope(FALSE, FALSE, <<>>, "none")
EmptyText == Envelope(FALSE, FALSE, <<>>, "empty")
Envelopes ==
    { Envelope(TRUE, FALSE, <<>>, "ok"),
      Envelope(TRUE, FALSE, <<>>, "error"),
      Envelope(TRUE, FALSE, <<>>, "emptyError"),
      Envelope(TRUE, FALSE, <<>>, "null"),
      Envelope(TRUE, TRUE, <<"e1">>, "null"),
      Envelope(TRUE, TRUE, <<"e1", "e2">>, "ok"),
      Envelope(TRUE, TRUE, <<>>, "ok") }

IdleCall == [pc |-> "idle", via |-> "none", method |-> "none",
             sent |-> <<>>, statuses |-> <<>>, nrefresh |-> 0, refreshSent |-> <<>>,
             refreshBody |-> None, env |-> NoEnvelope,
             version |-> 0, sentVersions |-> <<>>,
             outcome |-> NoOutcome, token0 |-> None, file0 |-> NoFile,
             afterLogout |-> FALSE]

NoSession == [op |-> "none", status |-> 0, body |-> None, outcome |-> "none",
              token0 |-> None, file0 |-> NoFile, loggedOut |-> FALSE]

\* the entry points that end in _request, and the method each passes
Heartbeats == {"update_flow_run_heartbeat", "update_task_run_heartbeat"}
RunInfos == {"get_flow_run_info", "get_task_run_info"}
SetStates == {"set_flow_run_state", "set_task_run_state"}
Vias == {"get", "post", "graphql", "_request"} \cup Heartbeats \cup RunInfos \cup SetStates

\* the version argument of set_flow_run_state / set_task_run_state
VersionsOf(via) == IF via \in SetStates THEN {1, 2} ELSE {0}
Methods == {"GET", "POST", "DELETE", "PATCH"}
MethodsOf(via) ==
    CASE via = "get" -> {"GET"}
      [] via = "post" -> {"POST"}
      [] via = "graphql" -> {"POST"}
      [] via \in Heartbeats \cup RunInfos \cup SetStates -> {"POST"}
      [] OTHER -> Methods

AllIdle == \A c \in Callers : call[c].pc = "idle"

-----------------------------------------------------------------------------
(* Client._request, one step per blocking call it makes *)

\* entry: `if self.token is None: raise AuthorizationError`; reading an
\* attribute that logout deleted raises AttributeError
Start(c, via, method) ==
    /\ call[c].pc = "idle"
    /\ method \in MethodsOf(via)
    /\ \E version \in VersionsOf(via) :
          LET base == [IdleCall EXCEPT !.via = via, !.method = method, !.token0 = token,
                                       !.file0 = file, !.afterLogout = session.loggedOut,
                                       !.version = version]
          IN call' = [call EXCEPT ![c] =
                 IF token = Deleted
                 THEN [base EXCEPT !.pc = "done", !.outcome = Raised("AttributeError")]
                 ELSE IF token = None
                 THEN [base EXCEPT !.pc = "done", !.outcome = Raised("AuthorizationError")]
                 ELSE [base EXCEPT !.pc = "send1"]]
    /\ session' = [NoSession EXCEPT !.loggedOut = session.loggedOut]  \* no longer the last operation
    /\ UNCHANGED <<token, file, config>>
    /\ UNCHANGED <<schemaVars, fieldVars, deployVars>>

\* a retry loop: every 401 is answered with a refresh and another attempt
Retries_every401(attempt, status) == status = 401

\* a retry of every failed first attempt, whatever its status
Retries_anyError(attempt, status) == attempt = 1

\* `except requests.HTTPError as err: if err.response.status_code == 401:`
\* only the first request_fn() call stands inside the try
Retries(attempt, status) == attempt = 1 /\ status = 401

\* request_fn() without its raise_for_status() call
RequestFnOutcome_unchecked(status) == Response(status)

\* request_fn() once the server has answered: raise_for_status(), else the response
RequestFnOutcome(status) ==
    IF RaisesForStatus(status) THEN HTTPError(status) ELSE Response(status)

Attempt(c) == IF call[c].pc = "send1" THEN 1 ELSE 2

\* request_fn() cannot build its request: the token attribute is gone, or the
\* method is none of GET, POST, DELETE
RequestFnRaises(c) ==
    /\ call[c].pc \in {"send1", "send2"}
    /\ token = Deleted \/ call[c].method = "PATCH"
    /\ call' = [call EXCEPT ![c].pc = "done",
                            ![c].outcome = IF token = Deleted THEN Raised("AttributeError")
                                           ELSE Raised("ValueError")]
    /\ UNCHANGED <<token, file, config, session>>
    /\ UNCHANGED <<schemaVars, fieldVars, deployVars>>

\* a request_fn that counts the version up with every attempt
RequestParams_bumped(version, attempt) == version + attempt - 1

\* request_fn posts the params that _request was called with, the mutation and
\* its version among them, the same at every attempt
RequestParams(version, attempt) == version

\* the bodies a response can carry to the entry point that reads it: get and
\* post read any body, the GraphQL server answers with an envelope, and a bare
\* _request (or a response that is raised) has its body read by nobody
BodiesOf(via, out) ==
    IF out.kind # "Response" \/ via = "_request" THEN {NoEnvelope}
    ELSE IF via \in {"get", "post"} THEN Envelopes \cup {EmptyText}
    ELSE Envelopes

\* request_fn() sends the request with `Bearer {self.token}` and the server
\* answers with a status and a body
Send(c, status, env) ==
    /\ call[c].pc \in {"send1", "send2"}
    /\ token # Deleted /\ call[c].method # "PATCH"
    /\ LET sent == [call[c] EXCEPT !.sent = Append(@, token),
                                   !.statuses = Append(@, status),
                                   !.sentVersions =
                                       Append(@, RequestParams(call[c].version, Attempt(c)))]
           out == RequestFnOutcome(status)
       IN /\ env \in BodiesOf(call[c].via, out)
          /\ call' = [call EXCEPT ![c] =
                 IF out.kind = "HTTPError" /\ Retries(Attempt(c), out.status)
                 THEN [sent EXCEPT !.pc = "refresh"]
                 ELSE [sent EXCEPT !.pc = "done", !.outcome = out, !.env = env]]
    /\ UNCHANGED <<token, file, config, session>>
    /\ UNCHANGED <<schemaVars, fieldVars, deployVars>>

\* request_fn() sends the request and requests raises ConnectionError
SendFails(c) ==
    /\ call[c].pc \in {"send1", "send2"}
    /\ token # Deleted /\ call[c].method # "PATCH"
    /\ call' = [call EXCEPT ![c].sent = Append(@, token),
                            ![c].sentVersions =
                                Append(@, RequestParams(call[c].version, Attempt(c))),
                            ![c].pc = "done",
                            ![c].outcome = Raised("ConnectionError")]
    /\ UNCHANGED <<token, file, config, session>>
    /\ UNCHANGED <<schemaVars, fieldVars, deployVars>>

-----------------------------------------------------------------------------
(* Client.refresh_token *)

\* refresh_token() that drops the token of the response
RefreshedToken_stale(body) == token

\* refresh_token(), the server answering with a JSON object: the new value of
\* self.token
RefreshedToken(body) == body

\* self.refresh_token() on the 401 path of _request
Refresh(c, body) ==
    /\ call[c].pc = "refresh"
    /\ token # Deleted
    /\ token' = RefreshedToken(body)
    /\ call' = [call EXCEPT ![c].nrefresh = @ + 1,
                            ![c].refreshSent = Append(@, token),
                            ![c].refreshBody = body,
                            ![c].pc = "send2"]
    /\ UNCHANGED <<file, config, session>>
    /\ UNCHANGED <<schemaVars, fieldVars, deployVars>>

\* refresh_token() under a lock: no other caller is inside refresh_token
RefreshSend_locked(c) ==
    /\ call[c].pc = "refresh"
    /\ token # Deleted
    /\ \A d \in Callers \ {c} : call[d].pc # "refreshing"
    /\ call' = [call EXCEPT ![c].refreshSent = Append(@, token),
                            ![c].pc = "refreshing"]
    /\ UNCHANGED <<token, file, config, session>>
    /\ UNCHANGED <<schemaVars, fieldVars, deployVars>>

\* refresh_token() as other threads see it, first half: requests.post is called
\* with the header built from self.token, and blocks
RefreshSend(c) ==
    /\ call[c].pc = "refresh"
    /\ token # Deleted
    /\ call' = [call EXCEPT ![c].refreshSent = Append(@, token),
                            ![c].pc = "refreshing"]
    /\ UNCHANGED <<token, file, config, session>>
    /\ UNCHANGED <<schemaVars, fieldVars, deployVars>>

\* second half: the response is there, `self.token = response.json().get("token")`
RefreshReceive(c, body) ==
    /\ call[c].pc = "refreshing"
    /\ token' = RefreshedToken(body)
    /\ call' = [call EXCEPT ![c].nrefresh = @ + 1,
                            ![c].refreshBody = body,
                            ![c].pc = "send2"]
    /\ UNCHANGED <<file, config, session>>
    /\ UNCHANGED <<schemaVars, fieldVars, deployVars>>

\* self.refresh_token() raises: the token attribute is gone (AttributeError), the
\* POST fails (ConnectionError) or the body is no JSON object (ValueError)
RefreshRaises(c, err) ==
    /\ call[c].pc = "refresh"
    /\ (err = "AttributeError") <=> (token = Deleted)
    /\ call' = [call EXCEPT ![c].nrefresh = @ + 1,
                            ![c].refreshSent = IF token = Deleted THEN @ ELSE Append(@, token),
                            ![c].pc = "done",
                            ![c].outcome = Raised(err)]
    /\ UNCHANGED <<token, file, config, session>>
    /\ UNCHANGED <<schemaVars, fieldVars, deployVars>>

-----------------------------------------------------------------------------
(* Client.get, Client.post, Client.graphql and the heartbeats, on what _request
   returned or raised *)

NoResult == [kind |-> "none", errors |-> <<>>, data |-> "none"]
Propagated(out) == [kind |-> out.kind, errors |-> <<>>, data |-> "none"]
Returned(kind, d) == [kind |-> kind, errors |-> <<>>, data |-> d]
ClientError(errors) == [kind |-> "ClientError", errors |-> errors, data |-> "none"]

\* get / post: `response.json() if response.text else {}`
post(out, env) ==
    IF out.kind # "Response" THEN Propagated(out)
    ELSE IF env.text THEN Returned("dict", env.data)
    ELSE Returned("dict", "empty")

\* `if "errors" in result: raise ClientError(result["errors"])`, else the data
graphql(out, env) ==
    LET result == post(out, env)
    IN IF result.kind # "dict" THEN result
       ELSE IF env.text /\ env.haserrors THEN ClientError(env.errors)
       ELSE Returned("data", result.data)

\* update_flow_run_heartbeat / update_task_run_heartbeat: `self.graphql(mutation)`
\* as the whole body, its value dropped
update_heartbeat(out, env) ==
    LET result == graphql(out, env)
    IN IF result.kind # "data" THEN result ELSE Returned("None", "none")

\* `if result.<field>.error: raise ClientError(result.<field>.error)`: the
\* error field counts when it is a non-empty str
ErrorField(d) == IF d = "error" THEN <<"msg">> ELSE <<>>

\* the message of get_flow_run_info for a run that is None
NotFound == <<"Flow run ID not found: flow_run_id">>

\* get_flow_run_info: `if result is None: raise ClientError(...)`, else the
\* FlowRunInfoResult built from the run
get_flow_run_info(out, env) ==
    LET result == graphql(out, env)
    IN IF result.kind # "data" THEN result
       ELSE IF result.data = "null" THEN ClientError(NotFound)
       ELSE Returned("FlowRunInfoResult", result.data)

\* get_task_run_info: the error field is checked, then result.task_run is read
\* with no test for None: `result.serialized_state` on None raises AttributeError
get_task_run_info(out, env) ==
    LET result == graphql(out, env)
    IN IF result.kind # "data" THEN result
       ELSE IF ErrorField(result.data) # <<>> THEN ClientError(ErrorField(result.data))
       ELSE IF result.data = "null" THEN Propagated(Raised("AttributeError"))
       ELSE Returned("TaskRunInfoResult", result.data)

\* set_flow_run_state / set_task_run_state: one graphql call, then the error
\* field; reading .error of a null mutation result raises AttributeError
set_run_state(out, env) ==
    LET result == graphql(out, env)
    IN IF result.kind # "data" THEN result
       ELSE IF result.data = "null" THEN Propagated(Raised("AttributeError"))
       ELSE IF ErrorField(result.data) # <<>> THEN ClientError(ErrorField(result.data))
       ELSE Returned("None", "none")

\* what the entry point of a finished call hands to its caller
Result(c) ==
    LET out == call[c].outcome
        env == call[c].env
        via == call[c].via
    IN IF call[c].pc # "done" THEN NoResult
       ELSE IF via \in {"get", "post"} THEN post(out, env)
       ELSE IF via = "graphql" THEN graphql(out, env)
       ELSE IF via \in Heartbeats THEN update_heartbeat(out, env)
       ELSE IF via = "get_flow_run_info" THEN get_flow_run_info(out, env)
       ELSE IF via = "get_task_run_info" THEN get_task_run_info(out, env)
       ELSE IF via \in SetStates THEN set_run_state(out, env)
       ELSE Propagated(out)

\* the caller takes the result of its call
Return(c) ==
    /\ call[c].pc = "done"
    /\ call' = [call EXCEPT ![c] = IdleCall]
    /\ UNCHANGED <<token, file, config, session>>
    /\ UNCHANGED <<schemaVars, fieldVars, deployVars>>

\* refresh_token() called on its own
RefreshToken(body) ==
    /\ token # Deleted
    /\ token' = RefreshedToken(body)
    /\ session' = [NoSession EXCEPT !.op = "refresh", !.body = body, !.outcome = "ok",
                                    !.token0 = token, !.file0 = file,
                                    !.loggedOut = session.loggedOut]
    /\ UNCHANGED <<file, config, call>>
    /\ UNCHANGED <<schemaVars, fieldVars, deployVars>>

RefreshTokenRaises(err) ==
    /\ (err = "AttributeError") <=> (token = Deleted)
    /\ session' = [NoSession EXCEPT !.op = "refresh", !.outcome = err,
                                    !.token0 = token, !.file0 = file,
                                    !.loggedOut = session.loggedOut]
    /\ UNCHANGED <<token, file, config, call>>
    /\ UNCHANGED <<schemaVars, fieldVars, deployVars>>

-----------------------------------------------------------------------------
(* Client.login and Client.logout *)

\* what the body of the login response can be: a JSON object with or without a
\* token, or no JSON at all
NotJSON == "<not JSON>"
LoginBodies == BodyTokens \cup {NotJSON}

\* login that keeps the token in memory only
LoginFile_notWritten(tok, f) == f

\* login: `if self.token:` the token is written to the credential file
LoginFile(tok, f) == IF Truthy(tok) THEN tok ELSE f

\* login that stores the token of the body before it looks at response.ok
LoginToken_assignedFirst(outcome, body, tok) ==
    IF body # NotJSON THEN body ELSE tok

\* login: `if not response.ok: raise` stands before the assignment of self.token
LoginToken(outcome, body, tok) ==
    IF outcome = "ok" THEN body ELSE tok

\* login, the server answering with a status and a body
Login(status, body) ==
    LET outcome == IF RaisesForStatus(status) THEN "AuthorizationError"
                   ELSE IF body = NotJSON THEN "ValueError"
                   ELSE "ok"
    IN
    /\ token' = LoginToken(outcome, body, token)
    /\ file' = IF outcome = "ok" THEN LoginFile(body, file) ELSE file
    /\ session' = [op |-> "login", status |-> status, body |-> body,
                   outcome |-> outcome, token0 |-> token, file0 |-> file,
                   loggedOut |-> IF outcome = "ok" THEN FALSE ELSE session.loggedOut]
    /\ UNCHANGED <<config, call>>
    /\ UNCHANGED <<schemaVars, fieldVars, deployVars>>

\* login, requests.post raising ConnectionError
LoginFails ==
    /\ session' = [NoSession EXCEPT !.op = "login", !.outcome = "ConnectionError",
                                    !.token0 = token, !.file0 = file,
                                    !.loggedOut = session.loggedOut]
    /\ UNCHANGED <<token, file, config, call>>
    /\ UNCHANGED <<schemaVars, fieldVars, deployVars>>

\* logout: os.remove the file if it exists, then `del self.token`, which raises
\* AttributeError when the attribute is already gone
Logout ==
    /\ file' = NoFile
    /\ token' = Deleted
    /\ session' = [NoSession EXCEPT !.op = "logout",
                                    !.outcome = IF token = Deleted THEN "AttributeError" ELSE "ok",
                                    !.token0 = token, !.file0 = file,
                                    !.loggedOut = TRUE]
    /\ UNCHANGED <<config, call>>
    /\ UNCHANGED <<schemaVars, fieldVars, deployVars>>

\* Client(): a new client object is built, under a configuration cfg, beside
\* the credential file as it is now
Construct(cfg) ==
    /\ config' = cfg
    /\ token' = InitToken(cfg, file)
    /\ call' = [c \in Callers |-> IdleCall]
    /\ session' = [NoSession EXCEPT !.op = "init", !.file0 = file]
    /\ UNCHANGED file
    /\ UNCHANGED <<schemaVars, fieldVars, deployVars>>

-----------------------------------------------------------------------------
(* Client.deploy *)

NoDeployment == [pc |-> "idle", schedule |-> FALSE, required_parameters |-> FALSE,
                 set_schedule_active |-> FALSE, sent |-> <<>>,
                 res |-> NoResult, scheduled_res |-> NoResult, outcome |-> NoResult]

\* what self.graphql(...) can hand to deploy: the data of an answer, the
\* ClientError of an errors envelope, or the error of the transport
GraphqlResults ==
    {graphql(out, env) :
        out \in {Response(200), HTTPError(500), Raised("ConnectionError"),
                 Raised("AuthorizationError")},
        env \in Envelopes}

NotSchedulable ==
    ClientError(<<"Flows with required parameters can not be scheduled automatically.">>)

\* `if res.<field>.error: raise ClientError(res.<field>.error)` on what graphql
\* returned or raised: the exception that ends deploy, or NoResult to go on
CheckError(result) ==
    IF result.kind # "data" THEN result
    ELSE IF result.data = "null" THEN Propagated(Raised("AttributeError"))
    ELSE IF ErrorField(result.data) # <<>> THEN ClientError(ErrorField(result.data))
    ELSE NoResult

\* a deploy that sends the schedule mutation whatever createFlow answered
AfterCreate_unchecked(raised, set_schedule_active) ==
    IF set_schedule_active THEN "schedule" ELSE "done"

\* after the createFlow mutation: the raise, else `if set_schedule_active:`
AfterCreate(raised, set_schedule_active) ==
    IF raised # NoResult THEN "done"
    ELSE IF set_schedule_active THEN "schedule" ELSE "done"

\* deploy(flow, set_schedule_active=...): the test of the flow's schedule and
\* required parameters, before anything is sent
DeployStart(schedule, required_parameters, set_schedule_active) ==
    /\ deployment.pc = "idle"
    /\ deployment' =
          [NoDeployment EXCEPT !.schedule = schedule,
                               !.required_parameters = required_parameters,
                               !.set_schedule_active = set_schedule_active,
                               !.pc = IF schedule /\ required_parameters
                                      THEN "done" ELSE "create",
                               !.outcome = IF schedule /\ required_parameters
                                           THEN NotSchedulable ELSE NoResult]
    /\ UNCHANGED <<schemaVars, clientVars, fieldVars>>

\* res = self.graphql(create_mutation, ...), then the test of res.createFlow.error
DeployCreate(result) ==
    /\ deployment.pc = "create"
    /\ LET raised == CheckError(result)
           pc == AfterCreate(raised, deployment.set_schedule_active)
       IN deployment' =
              [deployment EXCEPT !.sent = Append(@, "createFlow"),
                                 !.res = result,
                                 !.pc = pc,
                                 !.outcome = IF pc = "schedule" THEN NoResult
                                             ELSE IF raised # NoResult THEN raised
                                             ELSE Returned("str", "id")]
    /\ UNCHANGED <<schemaVars, clientVars, fieldVars>>

\* scheduled_res = self.graphql(schedule_mutation, ...), its error test, and
\* `return res.createFlow.id`
DeploySchedule(result) ==
    /\ deployment.pc = "schedule"
    /\ LET raised == CheckError(result)
       IN deployment' =
              [deployment EXCEPT !.sent = Append(@, "setFlowScheduleState"),
                                 !.scheduled_res = result,
                                 !.pc = "done",
                                 !.outcome = IF raised # NoResult THEN raised
                                             ELSE Returned("str", "id")]
    /\ UNCHANGED <<schemaVars, clientVars, fieldVars>>

\* the caller takes the id, or the exception
DeployReturn ==
    /\ deployment.pc = "done"
    /\ deployment' = NoDeployment
    /\ UNCHANGED <<schemaVars, clientVars, fieldVars>>

-----------------------------------------------------------------------------
(* The client used by one thread at a time *)

ClientInit ==
    /\ config \in Tokens \cup {None}
    /\ file \in Tokens \cup {"", NoFile}
    /\ token = InitToken(config, file)
    /\ call = [c \in Callers |-> IdleCall]
    /\ session = [NoSession EXCEPT !.op = "init", !.file0 = file]
    /\ field = NoField
    /\ deployment = NoDeployment

SchemaIdle ==
    /\ VERSIONS = << >>
    /\ nregistered = 0
    /\ instance = [cls |-> "A_new", context |-> "unset"]
    /\ data = [hasver |-> FALSE, ver |-> <<>>, same |-> FALSE, x |-> "ok",
               by |-> "none", val |-> "v1"]
    /\ loaded = NoLoad

Init == ClientInit /\ SchemaIdle

RefreshErrors == {"AttributeError", "ConnectionError", "ValueError"}

Next ==
    \/ \E c \in Callers, via \in Vias, method \in Methods :
          AllIdle /\ Start(c, via, method)
    \/ \E c \in Callers, status \in Statuses, env \in Envelopes \cup {EmptyText, NoEnvelope} :
          Send(c, status, env)
    \/ \E c \in Callers : SendFails(c)
    \/ \E c \in Callers : RequestFnRaises(c)
    \/ \E c \in Callers, body \in BodyTokens : Refresh(c, body)
    \/ \E c \in Callers, err \in RefreshErrors : RefreshRaises(c, err)
    \/ \E c \in Callers : Return(c)
    \/ \E status \in Statuses, body \in LoginBodies : AllIdle /\ Login(status, body)
    \/ AllIdle /\ LoginFails
    \/ AllIdle /\ Logout
    \/ \E body \in BodyTokens : AllIdle /\ RefreshToken(body)
    \/ \E err \in RefreshErrors : AllIdle /\ RefreshTokenRaises(err)
    \/ \E cfg \in Tokens \cup {None} : AllIdle /\ Construct(cfg)

Spec == Init /\ [][Next]_vars

\* the client shared by threads that call _request with nothing between them
InitConcurrent ==
    /\ ClientInit
    /\ config = "t1" /\ file = NoFile
    /\ SchemaIdle

NextConcurrent ==
    \/ \E c \in Callers : Start(c, "_request", "GET")
    \/ \E c \in Callers, status \in {200, 401} : Send(c, status, NoEnvelope)
    \/ \E c \in Callers : RefreshSend(c)
    \/ \E c \in Callers, body \in Tokens : RefreshReceive(c, body)
    \/ \E c \in Callers : RefreshRaises(c, "ConnectionError")
    \/ \E c \in Callers : Return(c)

SpecConcurrent == InitConcurrent /\ [][NextConcurrent]_vars

-----------------------------------------------------------------------------
(* The serialization half on its own *)

SchemaInit ==
    /\ VERSIONS = << >>
    /\ nregistered = 0
    /\ instance \in {[cls |-> c, context |-> "unset"] : c \in Classes}
    /\ data \in {d \in Payloads : WellFormed(d)}
    /\ loaded = NoLoad

ClientIdle ==
    /\ token = None
    /\ file = NoFile
    /\ config = None
    /\ call = [c \in Callers |-> IdleCall]
    /\ session = NoSession
    /\ field = NoField
    /\ deployment = NoDeployment

InitSchema == SchemaInit /\ ClientIdle

NextSchema ==
    \/ \E cls \in Classes, tag \in Tags : Register(cls, tag)
    \/ \E cls \in Classes : NewInstance(cls)
    \/ \E d \in Payloads : NewPayload(d)
    \/ \E co \in BOOLEAN, check_version \in BOOLEAN : Load(co, check_version)

SpecSchema == InitSchema /\ [][NextSchema]_vars

\* dumps and the loads of what they return
InitDump == SchemaIdle /\ ClientIdle

\* the tags registered around the library versions: "1", "2", "4"
DumpTags == {<<49>>, <<50>>, <<52>>}

NextDump ==
    \/ \E cls \in Classes, tag \in DumpTags : Register(cls, tag)
    \/ \E cls \in Classes : NewInstance(cls)
    \/ \E pv \in LibraryVersions, val \in Values, produced \in BOOLEAN, fv \in FieldVersions :
          Dump(pv, val, produced, fv)
    \/ \E co \in BOOLEAN, check_version \in BOOLEAN : Load(co, check_version)

SpecDump == InitDump /\ [][NextDump]_vars

\* the registry under registrations, with the loads that read it
InitRegistry == SchemaIdle /\ ClientIdle

NextRegistry ==
    \/ \E cls \in Classes, tag \in Tags : Register(cls, tag)
    \/ \E cls \in Classes : NewInstance(cls)
    \/ \E co \in BOOLEAN, check_version \in BOOLEAN : Load(co, check_version)

SpecRegistry == InitRegistry /\ [][NextRegistry]_vars

\* a FunctionReference field under dumps and loads
InitField == SchemaIdle /\ ClientIdle

NextField ==
    \/ \E L \in AllowLists, reject_invalid \in BOOLEAN, value \in Functions :
          Serialize(L, reject_invalid, value)
    \/ \E L \in AllowLists, reject_invalid \in BOOLEAN, value \in FunctionNames :
          Deserialize(L, reject_invalid, value)
    \/ DeserializeSerialized

SpecField == InitField /\ [][NextField]_vars

\* deploy calls, one after the other
InitDeploy == SchemaIdle /\ ClientIdle

NextDeploy ==
    \/ \E schedule \in BOOLEAN, required_parameters \in BOOLEAN, set_schedule_active \in BOOLEAN :
          DeployStart(schedule, required_parameters, set_schedule_active)
    \/ \E result \in GraphqlResults : DeployCreate(result)
    \/ \E result \in GraphqlResults : DeploySchedule(result)
    \/ DeployReturn

SpecDeploy == InitDeploy /\ [][NextDeploy]_vars

-----------------------------------------------------------------------------
(* Version resolution: C1 - C3 *)

\* the registry entry of the receiving schema's identity (when registered)
SelfName == to_qualified_name(loaded.self)
SelfRegistered == SelfName \in DOMAIN VERSIONS
SelfTags == DOMAIN VERSIONS[SelfName]

\* a load with check_version=true has just run get_versioned_schema
Resolving == loaded.op = "load" /\ loaded.check_version

\* C1: for a registered identity and a version tag v other than MAX_VERSION, the
\* schema that get_versioned_schema returns is the one registered at the greatest
\* registered tag t with t <= v in str order (so never one selected at a tag
\* above v); with "1", "2", "4" registered, "3" selects "2" and "5" selects "4".
C1_GreatestTagAtMost ==
    (Resolving /\ SelfRegistered /\ loaded.ver.str # MAX_VERSION) =>
        /\ loaded.resolved # "none" =>
              \E t \in SelfTags :
                  /\ StrLE(t, loaded.ver.str)
                  /\ \A u \in SelfTags : StrLE(u, loaded.ver.str) => StrLE(u, t)
                  /\ loaded.resolved = VERSIONS[SelfName][t]
        /\ (\E t \in SelfTags : StrLE(t, loaded.ver.str)) => loaded.resolved # "none"
        /\ SelfTags = {<<49>>, <<50>>, <<52>>} =>
              /\ loaded.ver.str = <<51>> => loaded.resolved = VERSIONS[SelfName][<<50>>]
              /\ loaded.ver.str = <<53>> => loaded.resolved = VERSIONS[SelfName][<<52>>]

\* "1", "2", "4" are registered with different classes at "2" and "4", the payload
\* declares "3", and the class at "2" was selected
C1_Witness ==
    /\ Resolving /\ SelfRegistered
    /\ SelfTags = {<<49>>, <<50>>, <<52>>}
    /\ VERSIONS[SelfName][<<50>>] # VERSIONS[SelfName][<<52>>]
    /\ loaded.ver.str = <<51>>
    /\ loaded.resolved = VERSIONS[SelfName][<<50>>]

\* C2: when the payload carries MAX_VERSION as its version, or no version field,
\* load resolves to the schema registered at the maximal registered tag of the
\* identity, whatever the (non-empty) set of registered tags.
C2_SentinelSelectsMaximalTag ==
    (Resolving /\ SelfRegistered /\ (~loaded.hadver \/ loaded.ver.str = MAX_VERSION)) =>
        loaded.resolved = VERSIONS[SelfName][StrMax(SelfTags)]

-----------------------------------------------------------------------------
(* The transport call: C4 - C8 *)

Is2xx(status) == 200 <= status /\ status < 300

Done(c) == call[c].pc = "done"
First401(c) == Len(call[c].statuses) >= 1 /\ call[c].statuses[1] = 401

\* C4: in every _request call, whatever statuses the server returns, refresh_token
\* is invoked at most once, request_fn sends at most two requests, refresh_token is
\* invoked only after the first attempt returned 401, and a second answer (a 401
\* too) ends the call: no further refresh, no third attempt.
C4_OneRefreshTwoRequests ==
    \A c \in Callers :
        /\ Len(call[c].sent) <= 2
        /\ call[c].nrefresh <= 1
        /\ call[c].nrefresh = 1 => First401(c)
        /\ Len(call[c].sent) = 2 => (First401(c) /\ call[c].nrefresh = 1)
        /\ call[c].pc \in {"refresh", "send2"} => First401(c)
        /\ Len(call[c].statuses) = 2 => Done(c)

\* a call answered 401 twice: one refresh, two requests, the second 401 raised
C4_Witness ==
    \E c \in Callers :
        /\ Done(c)
        /\ call[c].statuses = <<401, 401>>
        /\ call[c].nrefresh = 1
        /\ call[c].outcome = HTTPError(401)

Unset(t) == t \in {None, Deleted}

\* C6: a transport operation (get, post, graphql, _request) called while the token
\* is unset raises AuthorizationError, sends nothing, and leaves the token and the
\* credential file as they were.
C6_UnsetTokenRejected ==
    \A c \in Callers :
        (Done(c) /\ Unset(call[c].token0)) =>
            /\ call[c].outcome = Raised("AuthorizationError")
            /\ call[c].sent = <<>>
            /\ call[c].nrefresh = 0
            /\ token = call[c].token0
            /\ file = call[c].file0

\* C7: no request is ever sent with a null token in its Authorization header; a
\* retry after a refresh that yielded no token is rejected, not sent.
C7_NoRequestWithNullToken ==
    \A c \in Callers :
        \A i \in 1..Len(call[c].sent) : ~Unset(call[c].sent[i])

-----------------------------------------------------------------------------
(* The session: C9, C10 *)

\* C9: after logout the credential file does not exist and the token is cleared,
\* and every transport operation called from then on, until a login succeeds,
\* raises AuthorizationError and sends nothing.
C9_LoggedOutIsRejected ==
    /\ session.op = "logout" => (file = NoFile /\ Unset(token))
    /\ \A c \in Callers :
          (Done(c) /\ call[c].afterLogout) =>
              /\ call[c].outcome = Raised("AuthorizationError")
              /\ call[c].sent = <<>>
              /\ call[c].nrefresh = 0

\* the server answered this login call (requests.post returned)
LoginAnswered == session.op = "login" /\ session.outcome # "ConnectionError"

-----------------------------------------------------------------------------
(* refresh_token and construction: C11, C12 *)

\* refresh_token has returned inside this call
Refreshed(c) == call[c].pc = "send2" \/ Len(call[c].sent) = 2

\* C11: refresh_token sends its request with the token that was current when it
\* was called, sets the in-memory token to the token of the response, and leaves
\* the credential file as it was, on the 401 path of _request as when called
\* directly.
C11_RefreshReplacesTokenOnly ==
    /\ \A c \in Callers :
          /\ call[c].nrefresh >= 1 =>
                /\ file = call[c].file0
                /\ Len(call[c].refreshSent) = 1 =>
                      call[c].refreshSent[1] = call[c].token0
          /\ Refreshed(c) =>
                /\ call[c].refreshSent = <<call[c].token0>>
                /\ token = call[c].refreshBody
    /\ (session.op = "refresh" /\ session.outcome = "ok") =>
          /\ token = session.body
          /\ file = session.file0

\* a 401 refreshed a token different from the one in the credential file, and
\* the file still holds the old one
C11_Witness ==
    \E c \in Callers :
        /\ Refreshed(c)
        /\ call[c].token0 = "t1" /\ call[c].file0 = "t1"
        /\ call[c].refreshBody = "t2"
        /\ token = "t2" /\ file = "t1"

\* C12: a client just constructed holds the configured token when there is one,
\* whatever the credential file; without a configured token it holds the content
\* of the credential file when that exists and is not empty, and no token when
\* the file is missing or empty; construction leaves the file as it was.
C12_ConstructionReadsToken ==
    session.op = "init" =>
        /\ config # None => token = config
        /\ (config = None /\ file \notin {NoFile, ""}) => token = file
        /\ (config = None /\ file \in {NoFile, ""}) => token = None
        /\ file = session.file0

\* a client constructed with a configured token beside a file holding another one
C12_Witness ==
    /\ session.op = "init"
    /\ config = "t1" /\ file = "t2"
    /\ token = "t1"

-----------------------------------------------------------------------------
(* GraphQL results: C19, C20 *)

\* the call ended with a response that was not raised, carrying a JSON envelope
Answered(c) ==
    /\ call[c].pc = "done"
    /\ call[c].outcome.kind = "Response"
    /\ call[c].env.text

\* C19: graphql raises ClientError with the server's errors exactly when the
\* envelope of the response holds a non-empty errors list; with no errors key or
\* an empty errors list it returns the data of the envelope.
C19_ErrorsRaisedOnlyWhenNonEmpty ==
    \A c \in Callers :
        (call[c].via = "graphql" /\ Answered(c)) =>
            IF call[c].env.haserrors /\ call[c].env.errors # <<>>
            THEN Result(c) = ClientError(call[c].env.errors)
            ELSE Result(c) = Returned("data", call[c].env.data)

\* C20: a heartbeat whose request was answered returns normally, whether the
\* server reported an error in the error field of the mutation result or in the
\* errors of the envelope.
C20_HeartbeatNeverRaises ==
    \A c \in Callers :
        (call[c].via \in Heartbeats /\ Answered(c)) =>
            Result(c) = Returned("None", "none")

-----------------------------------------------------------------------------
(* dump and load: C13 .. C17 *)

Dumped == loaded.op = "dump"

\* C13 as stated: a dump that found no "__version__" among the serialized fields
\* writes a tag under which the dumping schema class is registered.
C13_Original ==
    Dumped =>
        /\ data.hasver
        /\ loaded.hadver => data.ver = loaded.ver.str
        /\ ~loaded.hadver =>
              /\ SelfRegistered
              /\ data.ver \in SelfTags
              /\ VERSIONS[SelfName][data.ver] = loaded.self

\* C13: every dict that dump returns holds the "__version__" key; when the
\* field-level serialization produced none its value is the version of the
\* library that runs the dump, and when it produced one that value is kept.
C13_DumpAddsLibraryVersion ==
    Dumped =>
        /\ data.hasver
        /\ loaded.hadver => data.ver = loaded.ver.str
        /\ ~loaded.hadver => data.ver = loaded.pv

\* a dump by a schema that produced "4" itself under the library version "2",
\* and one that produced none
C13_Witness ==
    /\ Dumped
    /\ \/ loaded.hadver /\ loaded.pv = <<50>> /\ data.ver = <<52>>
       \/ ~loaded.hadver /\ data.ver = <<51>> /\ ~SelfRegistered

\* the field-level rules of a schema have run
FieldsLoaded == loaded.op = "load" /\ loaded.used # "none"

\* C14: whenever load reaches the field-level rules (check_version true or
\* false, through a reinstantiated schema or not), they are given a dict without
\* the "__version__" key, and the key is gone from the caller's dict.
C14_VersionStrippedBeforeFields ==
    FieldsLoaded => (~loaded.sawver /\ ~data.hasver)

\* a payload with a version was loaded through the schema its version resolved to
C14_Witness ==
    /\ FieldsLoaded
    /\ loaded.hadver /\ loaded.check_version /\ loaded.reinstantiated
    /\ loaded.result = "object"
    /\ ~data.hasver

\* C15: a load with check_version=true resolves the version once; a resolved
\* schema other than the receiver's is reinstantiated and loads the payload, and
\* a resolved schema that is the receiver's own makes the receiver load it, with
\* no new instance.
C15_DelegatesOnlyToAnotherSchema ==
    (Resolving /\ loaded.resolved # "none") =>
        /\ loaded.nresolve = 1
        /\ loaded.resolved # loaded.self =>
              (loaded.reinstantiated /\ loaded.used = loaded.resolved)
        /\ loaded.resolved = loaded.self =>
              (~loaded.reinstantiated /\ loaded.used = loaded.self)

\* C16: a load that passes the field-level rules returns the constructed object
\* exactly when its own create_object argument is true and the schema that
\* loaded declares a target type, whatever earlier loads on the instance passed.
C16_CreateObjectPerCall ==
    (FieldsLoaded /\ loaded.result \in {"object", "mapping"}) =>
        ((loaded.result = "object") <=>
            (loaded.create_object /\ object_class(loaded.used) # "None"))

\* the dict that a dump of this schema class returned is loaded by it
RoundTrip ==
    /\ loaded.op = "load" /\ loaded.check_version
    /\ loaded.from = loaded.self

RoundTripHolds ==
    /\ loaded.resolved = loaded.self
    /\ loaded.used = loaded.self
    /\ loaded.result \in {"object", "mapping"}
    /\ loaded.val = data.val

-----------------------------------------------------------------------------
(* the registry: C18 *)

Pairs(V) == {p \in (DOMAIN V) \X (Tags \cup DumpTags) : p[2] \in DOMAIN V[p[1]]}

\* C18: a registration leaves its class under its own (name, tag) pair and every
\* other pair as it was; nothing else changes the registry, no pair is ever
\* removed, and every name in the registry has at least one tag.
C18_RegistryKeepsLastRegistration ==
    /\ [](\A n \in DOMAIN VERSIONS : DOMAIN VERSIONS[n] # {})
    /\ [][/\ \A cls \in Classes, tag \in Tags :
                Register(cls, tag) =>
                    /\ Pairs(VERSIONS') = Pairs(VERSIONS) \cup {<<to_qualified_name(cls), tag>>}
                    /\ VERSIONS'[to_qualified_name(cls)][tag] = cls
                    /\ \A p \in Pairs(VERSIONS) :
                          p # <<to_qualified_name(cls), tag>> =>
                              VERSIONS'[p[1]][p[2]] = VERSIONS[p[1]][p[2]]
          /\ VERSIONS' # VERSIONS =>
                \E cls \in Classes, tag \in Tags : Register(cls, tag)]_vars

\* a second registration of a pair replaced the first, beside another tag that
\* stayed
C18_Witness ==
    /\ nregistered = 3
    /\ "pkg.SchemaA" \in DOMAIN VERSIONS
    /\ DOMAIN VERSIONS["pkg.SchemaA"] = {<<49>>, <<50>>}
    /\ VERSIONS["pkg.SchemaA"][<<49>>] = "A_new"
    /\ VERSIONS["pkg.SchemaA"][<<50>>] = "A_old"

-----------------------------------------------------------------------------
(* login and logout: C26, C28 *)

\* C26: a login that raises AuthorizationError leaves the token in memory and
\* the credential file exactly as they were before the call.
C26_FailedLoginChangesNothing ==
    (session.op = "login" /\ session.outcome = "AuthorizationError") =>
        (token = session.token0 /\ file = session.file0)

\* a login answered 401 with a token in its body, beside a token and a file
\* that stay
C26_Witness ==
    /\ session.op = "login" /\ session.outcome = "AuthorizationError"
    /\ session.status = 401 /\ session.body = "t2"
    /\ token = "t1" /\ file = "t1"

\* C28: logout completes without error in every state, also when no token is
\* set (never logged in, or logged out before), and leaves no credential file.
C28_LogoutAlwaysCompletes ==
    session.op = "logout" =>
        (session.outcome = "ok" /\ file = NoFile)

-----------------------------------------------------------------------------
(* load and the caller's dict: C27; resolution under registration: C29 *)

\* C27: load leaves the caller's dict as it was: a payload that declared a
\* version still declares it, so that a second load of the same dict resolves
\* from the same version.
C27_LoadKeepsPayload ==
    (FieldsLoaded /\ loaded.hadver) =>
        (data.hasver /\ data.ver = loaded.ver.str)

\* the version a payload declares, as get_versioned_schema receives it
Declared(v) == [str |-> v, same |-> FALSE]

\* the schema selected, or "none" when get_versioned_schema raises
Selected(V, cls, v) == get_versioned_schema(V, cls, Declared(v)).schema

\* each tag of the name holds a class of its own
OneTagPerClass(V, name) ==
    \A t, u \in DOMAIN V[name] : V[name][t] = V[name][u] => t = u

\* C29: in one registry, versions v1 <= v2 that both resolve select tags in the
\* same order; and a registration under a tag greater than v leaves the schema
\* that a payload declaring v resolves to as it was.
C29_ResolutionMonotoneAndStable ==
    /\ [](\A cls \in Classes, v1, v2 \in PayloadVersions :
            LET name == to_qualified_name(cls) IN
            (/\ name \in DOMAIN VERSIONS
             /\ OneTagPerClass(VERSIONS, name)
             /\ StrLE(v1, v2)
             /\ Selected(VERSIONS, cls, v1) # "none"
             /\ Selected(VERSIONS, cls, v2) # "none")
               => \A t1, t2 \in DOMAIN VERSIONS[name] :
                     (/\ VERSIONS[name][t1] = Selected(VERSIONS, cls, v1)
                      /\ VERSIONS[name][t2] = Selected(VERSIONS, cls, v2))
                        => StrLE(t1, t2))
    /\ [][\A cls \in Classes, tag \in Tags :
            Register(cls, tag) =>
                \A c \in Classes, v \in PayloadVersions :
                    ~StrLE(tag, v) =>
                        Selected(VERSIONS', c, v) = Selected(VERSIONS, c, v)]_vars

\* "4" was registered after "1": a payload declaring "2" still resolves to the
\* class at "1", and one declaring "5" to the class at "4"
C29_Witness ==
    /\ nregistered = 2
    /\ "pkg.SchemaA" \in DOMAIN VERSIONS
    /\ DOMAIN VERSIONS["pkg.SchemaA"] = {<<49>>, <<52>>}
    /\ VERSIONS["pkg.SchemaA"][<<49>>] = "A_old"
    /\ VERSIONS["pkg.SchemaA"][<<52>>] = "A_new"
    /\ Selected(VERSIONS, "A_new", <<50>>) = "A_old"
    /\ Selected(VERSIONS, "A_new", <<53>>) = "A_new"

-----------------------------------------------------------------------------
(* run info and run state: C21, C22 *)

\* the server answered this call with an envelope that has no "errors" key
AnsweredData(c) == Answered(c) /\ ~call[c].env.haserrors

\* C21: get_flow_run_info and get_task_run_info answer a run that the server
\* returns as null, with no error string, with the ClientError that names the
\* identifier.
C21_NotFoundIsClientError ==
    \A c \in Callers :
        (/\ call[c].via \in RunInfos
         /\ AnsweredData(c)
         /\ call[c].env.data = "null")
            => Result(c) = ClientError(NotFound)

\* every request of the call carried the version the caller passed, and a
\* second request was posted only by the retry of _request after a 401
SentOnce(c) ==
    /\ \A i \in 1..Len(call[c].sentVersions) : call[c].sentVersions[i] = call[c].version
    /\ Len(call[c].sentVersions) = Len(call[c].statuses)
    /\ Len(call[c].sentVersions) = 2 => call[c].statuses[1] = 401

\* C22 as stated: every error field that is not null makes the call raise
\* ClientError with it.
C22_Original ==
    \A c \in Callers :
        (/\ call[c].via \in SetStates
         /\ AnsweredData(c)
         /\ call[c].env.data \in {"error", "emptyError"})
            => /\ Result(c).kind = "ClientError"
               /\ SentOnce(c)

\* C22: set_flow_run_state and set_task_run_state post the caller's version
\* unchanged; an answer whose error field is a non-empty str ends the call with
\* the ClientError of that error, after which nothing is posted again; an empty
\* error str is taken as no error.
C22_ErrorFieldRaisedNotRetried ==
    \A c \in Callers :
        (call[c].via \in SetStates /\ call[c].pc = "done") =>
            /\ \A i \in 1..Len(call[c].sentVersions) :
                  call[c].sentVersions[i] = call[c].version
            /\ (AnsweredData(c) /\ call[c].env.data = "error") =>
                  (Result(c) = ClientError(<<"msg">>) /\ SentOnce(c))
            /\ (AnsweredData(c) /\ call[c].env.data = "emptyError") =>
                  Result(c) = Returned("None", "none")

\* a state update with version 2, posted again after a 401, answered with an
\* error message
C22_Witness ==
    \E c \in Callers :
        /\ call[c].via = "set_task_run_state" /\ call[c].pc = "done"
        /\ call[c].version = 2 /\ call[c].sentVersions = <<2, 2>>
        /\ AnsweredData(c) /\ call[c].env.data = "error"
        /\ Result(c) = ClientError(<<"msg">>)

-----------------------------------------------------------------------------
(* FunctionReference: C23 *)

Names(L) == {to_qualified_name(f) : f \in Range(L)}

\* no function later in the list has the qualified name of f
LastOfName(L, f) ==
    \A i, j \in DOMAIN L :
        (L[i] = f /\ i < j /\ to_qualified_name(L[j]) = to_qualified_name(f)) => L[j] = f

-----------------------------------------------------------------------------
(* deploy: C25 *)

\* the mutation was answered with data whose error field raises nothing
NoError(result) == result.kind = "data" /\ CheckError(result) = NoResult

\* C25: deploy rejects a flow with a schedule and required parameters with
\* ClientError before anything is sent; the schedule mutation is sent only
\* under set_schedule_active and only after createFlow was answered without an
\* error; an error of createFlow raises ClientError with no schedule mutation
\* sent; the id is returned only when every mutation sent reported no error.
C25_DeployOrdersItsSteps ==
    /\ (deployment.pc # "idle" /\ deployment.schedule /\ deployment.required_parameters) =>
          /\ deployment.pc = "done"
          /\ deployment.outcome = NotSchedulable
          /\ deployment.sent = <<>>
    /\ (deployment.pc = "schedule" \/ Len(deployment.sent) = 2) =>
          /\ deployment.set_schedule_active
          /\ deployment.sent \in {<<"createFlow">>, <<"createFlow", "setFlowScheduleState">>}
          /\ NoError(deployment.res)
    /\ (Len(deployment.sent) >= 1 /\ deployment.res.kind = "data"
            /\ deployment.res.data = "error") =>
          /\ deployment.pc = "done"
          /\ deployment.outcome = ClientError(<<"msg">>)
          /\ deployment.sent = <<"createFlow">>
    /\ deployment.outcome.kind = "str" =>
          /\ Len(deployment.sent) >= 1
          /\ NoError(deployment.res)
          /\ Len(deployment.sent) = 2 => NoError(deployment.scheduled_res)
          /\ Len(deployment.sent) = 1 => ~deployment.set_schedule_active

\* createFlow answered without error, the schedule mutation answered with one
C25_Witness ==
    /\ deployment.pc = "done"
    /\ deployment.set_schedule_active
    /\ deployment.sent = <<"createFlow", "setFlowScheduleState">>
    /\ deployment.res = Returned("data", "ok")
    /\ deployment.scheduled_res = Returned("data", "error")
    /\ deployment.outcome = ClientError(<<"msg">>)

-----------------------------------------------------------------------------
(* callers that share the client: C24 *)

\* C24: nothing makes a caller wait for another one: wherever the other callers
\* stand, a caller can start its request, send it, and enter and leave
\* refresh_token; so two callers answered 401 for one token both refresh, and
\* one sends its retry with the token the other's refresh wrote.
C24_NoMutualExclusion ==
    \A c \in Callers :
        /\ call[c].pc = "idle" => ENABLED Start(c, "_request", "GET")
        /\ call[c].pc \in {"send1", "send2"} => ENABLED Send(c, 200, NoEnvelope)
        /\ call[c].pc = "refresh" => ENABLED RefreshSend(c)
        /\ call[c].pc = "refreshing" => ENABLED RefreshReceive(c, "t2")

\* both callers were answered 401 for the token "t1" and both posted a refresh
\* for it; c1 was handed "t2", c2 then wrote "t1" over it, and c1 sent its
\* retry with "t1"
C24_Witness ==
    /\ call["c1"].token0 = "t1" /\ call["c2"].token0 = "t1"
    /\ Len(call["c1"].statuses) = 2 /\ call["c1"].statuses[1] = 401
    /\ Len(call["c2"].statuses) >= 1 /\ call["c2"].statuses[1] = 401
    /\ call["c1"].refreshSent = <<"t1">> /\ call["c2"].refreshSent = <<"t1">>
    /\ call["c1"].refreshBody = "t2" /\ call["c2"].refreshBody = "t1"
    /\ call["c1"].sent = <<"t1", "t1">>

====
